---- MODULE Spec2Model ----
(***************************************************************************)
(* Model of the link-validation engine of src/main.py:                     *)
(*   check_url_status       - the HEAD-first / GET-fallback probe          *)
(*   check_links_ultra_fast - grouping by domain, one stream per domain    *)
(*                            (process_domain) probing in batches through  *)
(*                            a shared TCPConnector, and the aggregation   *)
(*                            of the results into the returned list.       *)
(* A LinkInfo object is identified by its position in the input list: the  *)
(* objects are distinct even when their url and domain are equal.          *)
(***************************************************************************)
EXTENDS Integers, Sequences, FiniteSets, TLC

VARIABLES
    links,            \* the input list: links[i] = [url, domain] of LinkInfo object i
    max_connections,  \* the max_connections argument
    domain_keys,      \* the keys of the dict domain_groups, in insertion order
    domain_groups,    \* the dict domain_groups: domain -> list of LinkInfo objects
    link,             \* the mutable fields of each LinkInfo object
    dpc,              \* per domain group: where its process_domain coroutine is
    batch,            \* per domain group: the loop variable i of process_domain
    results,          \* per domain group: the local list `results`
    task,             \* per LinkInfo object: where its check_url_status task is
    res,              \* per LinkInfo object: what its task handed to gather
    head_calls,       \* per LinkInfo object: session.head calls made for it
    get_calls,        \* per LinkInfo object: session.get calls made for it
    attempts,         \* per LinkInfo object: what each of its requests ended with
    pauses,           \* per domain group: inter-batch pauses that have elapsed
    pc,               \* check_links_ultra_fast: "idle", "running", "returned",
                      \* "cancelling" or "cancelled"
    output,           \* the list check_links_ultra_fast returned
    writes,           \* per LinkInfo object: assignments of its outcome fields
    mpc               \* main: "start", "empty", "checking", "reported" or "interrupted"

vars == <<links, max_connections, domain_keys, domain_groups, link, dpc, batch,
          results, task, res, head_calls, get_calls, attempts, pauses, pc, output,
          writes, mpc>>

setup == <<links, max_connections, domain_keys, domain_groups>>

(***************************************************************************)
(* Bounds of the model.  MaxLinks, MaxProbeLinks and MaxMainLinks bound the *)
(* input list, MaxConnections the max_connections argument.  The batch     *)
(* size and the per-host limit are both 20 in the source (lines 272-273    *)
(* and 246); they are scaled down to BatchSize and limit_per_host so that  *)
(* a domain group needs several batches and the per-host limit binds.      *)
(***************************************************************************)
MaxLinks == 3
MaxProbeLinks == 2
MaxMainLinks == 2
MaxConnections == 3
BatchSize == 2
limit_per_host == 2

None == {}
Some(x) == {x}

(***************************************************************************)
(* Inputs.  A url is a string; Host is the authority the connector keys    *)
(* its per-host limit on.  A candidate's domain is any key: the data model *)
(* assumes domain = Host(url) but check_links_ultra_fast does not check it.*)
(***************************************************************************)
Urls == {"x/a", "y/a"}
Host(url) == IF url = "x/a" THEN "x" ELSE "y"

\* the two well-formed candidates, and one whose domain is not its url's host
Candidates ==
    {[url |-> "x/a", domain |-> "x"], [url |-> "y/a", domain |-> "y"],
     [url |-> "y/a", domain |-> "x"]}
ConsistentCandidates == {c \in Candidates : c.domain = Host(c.url)}
ProbeCandidates == {[url |-> "x/a", domain |-> "x"]}
\* a well-formed candidate, and one with the default domain of line 25
DefaultCandidates == {[url |-> "x/a", domain |-> "x"], [url |-> "y/a", domain |-> ""]}

SeqsUpTo(S, n) == UNION {[1..k -> S] : k \in 0..n}

Ids == 1..Len(links)

(***************************************************************************)
(* What a request attempt can end with: a response with a status, or an    *)
(* exception.  The exception classes and their subclass relations are      *)
(* those the except clauses of check_url_status test.                      *)
(***************************************************************************)
Response(s)            == [kind |-> "response", status |-> s]
ClientResponseError(s, m) == [kind |-> "ClientResponseError", status |-> s, msg |-> m]
ClientError(m)         == [kind |-> "ClientError", msg |-> m]
ServerTimeoutError(m)  == [kind |-> "ServerTimeoutError", msg |-> m]
TimeoutError           == [kind |-> "TimeoutError", msg |-> ""]
OtherException(m)      == [kind |-> "Exception", msg |-> m]

IsClientResponseError(e) == e.kind = "ClientResponseError"
IsClientError(e)  == e.kind \in {"ClientResponseError", "ClientError", "ServerTimeoutError"}
IsTimeoutError(e) == e.kind \in {"TimeoutError", "ServerTimeoutError"}
HasStatus(e)      == e.kind = "ClientResponseError"

\* str(e)
Str(e) == IF IsClientResponseError(e)
          THEN ToString(e.status) \o ", message=" \o e.msg
          ELSE e.msg

Events(respS, errS, msgs) ==
    {Response(s) : s \in respS}
    \cup {ClientResponseError(s, m) : s \in errS, m \in msgs}
    \cup {ClientError(m) : m \in msgs}
    \cup {ServerTimeoutError(m) : m \in msgs}
    \cup {TimeoutError}
    \cup {OtherException(m) : m \in msgs}

\* The environments.  In the scheduling specification a HEAD request is
\* answered 200, rejected with a 405 error or times out, and the GET request
\* that follows a rejection times out; in the specification of main a HEAD
\* request is answered 200 or rejected with a 405 error.  The failure
\* specification adds the other kinds of failure.  The probe specification has every kind of event,
\* with the statuses around the bounds of the valid range and status 0 (the
\* default status of a ClientResponseError).
SchedHeadEvents == {Response(200), ClientResponseError(405, "Method Not Allowed"),
                    TimeoutError}
SchedGetEvents  == {TimeoutError}
MainHeadEvents  == {Response(200), ClientResponseError(405, "Method Not Allowed")}
FailHeadEvents  == SchedHeadEvents \cup {ClientError("refused"), OtherException("boom")}
FailGetEvents   == {ClientResponseError(405, "Method Not Allowed")}
ProbeEvents == Events({199, 200, 399, 400, 405}, {0, 399, 404, 405}, {"refused"})

(***************************************************************************)
(* check_url_status                                                        *)
(***************************************************************************)
\* lines 159-165
InitialResult(url) ==
    [url |-> url, status_code |-> None, is_valid |-> FALSE, error |-> None]

\* OnResponse with the upper bound of the valid range included
OnResponse_Inclusive400(url, r) ==
    [InitialResult(url) EXCEPT !.status_code = Some(r.status),
                               !.is_valid = (200 <= r.status /\ r.status <= 400)]

\* lines 183-186 and 209-212
OnResponse(url, r) ==
    [InitialResult(url) EXCEPT !.status_code = Some(r.status),
                               !.is_valid = (200 <= r.status /\ r.status < 400)]

\* OnException without the catch-all clause of lines 222-223: the exception
\* leaves check_url_status
OnException_NoCatchAll(url, e) ==
    IF IsTimeoutError(e)
    THEN [raised |-> FALSE,
          dict |-> [InitialResult(url) EXCEPT !.error = Some("Timeout")]]
    ELSE IF IsClientResponseError(e)
    THEN [raised |-> FALSE,
          dict |-> [InitialResult(url) EXCEPT
                        !.status_code = Some(e.status),
                        !.is_valid = (200 <= e.status /\ e.status < 400),
                        !.error = Some(Str(e))]]
    ELSE IF IsClientError(e)
    THEN [raised |-> FALSE,
          dict |-> [InitialResult(url) EXCEPT !.error = Some("Network: " \o Str(e))]]
    ELSE [raised |-> TRUE, exc |-> e]

\* OnException with the clause for ClientError placed before the clause for
\* its subclass ClientResponseError
OnException_ClientErrorFirst(url, e) ==
    IF IsTimeoutError(e)
    THEN [raised |-> FALSE,
          dict |-> [InitialResult(url) EXCEPT !.error = Some("Timeout")]]
    ELSE IF IsClientError(e)
    THEN [raised |-> FALSE,
          dict |-> [InitialResult(url) EXCEPT !.error = Some("Network: " \o Str(e))]]
    ELSE [raised |-> FALSE,
          dict |-> [InitialResult(url) EXCEPT !.error = Some("Unknown: " \o Str(e))]]

\* OnException whose clause for a timeout sets no error
OnException_SilentTimeout(url, e) ==
    IF IsTimeoutError(e)
    THEN [raised |-> FALSE, dict |-> InitialResult(url)]
    ELSE IF IsClientResponseError(e)
    THEN [raised |-> FALSE,
          dict |-> [InitialResult(url) EXCEPT
                        !.status_code = Some(e.status),
                        !.is_valid = (200 <= e.status /\ e.status < 400),
                        !.error = Some(Str(e))]]
    ELSE IF IsClientError(e)
    THEN [raised |-> FALSE,
          dict |-> [InitialResult(url) EXCEPT !.error = Some("Network: " \o Str(e))]]
    ELSE [raised |-> FALSE,
          dict |-> [InitialResult(url) EXCEPT !.error = Some("Unknown: " \o Str(e))]]

\* lines 214-226: the outer except clauses, tried in order
OnException(url, e) ==
    IF IsTimeoutError(e)
    THEN [raised |-> FALSE,
          dict |-> [InitialResult(url) EXCEPT !.error = Some("Timeout")]]
    ELSE IF IsClientResponseError(e)
    THEN [raised |-> FALSE,
          dict |-> [InitialResult(url) EXCEPT
                        !.status_code = Some(e.status),
                        !.is_valid = (200 <= e.status /\ e.status < 400),
                        !.error = Some(Str(e))]]
    ELSE IF IsClientError(e)
    THEN [raised |-> FALSE,
          dict |-> [InitialResult(url) EXCEPT !.error = Some("Network: " \o Str(e))]]
    ELSE [raised |-> FALSE,
          dict |-> [InitialResult(url) EXCEPT !.error = Some("Unknown: " \o Str(e))]]

\* FallsBackToGet without the test of the status: every status error of the
\* HEAD attempt leads to the GET
FallsBackToGet_AnyStatusError(e) ==
    IsClientError(e) /\ HasStatus(e)

\* lines 188-193: whether the HEAD attempt's exception leads to the GET
FallsBackToGet(e) ==
    IsClientError(e) /\ HasStatus(e) /\ e.status = 405

(***************************************************************************)
(* check_links_ultra_fast: the grouping (lines 238-242)                    *)
(***************************************************************************)
\* the keys of domain_groups, in insertion order
RECURSIVE KeysOf(_)
KeysOf(ls) ==
    IF ls = <<>> THEN <<>>
    ELSE LET front == KeysOf(SubSeq(ls, 1, Len(ls) - 1))
             d == ls[Len(ls)].domain
         IN IF \E k \in 1..Len(front) : front[k] = d THEN front
            ELSE Append(front, d)

Groups == DOMAIN domain_groups

\* ItemsOf inserting at the front of the list
RECURSIVE ItemsOf_Prepending(_, _)
ItemsOf_Prepending(ls, d) ==
    IF ls = <<>> THEN <<>>
    ELSE IF ls[Len(ls)].domain = d
         THEN <<Len(ls)>> \o ItemsOf_Prepending(SubSeq(ls, 1, Len(ls) - 1), d)
         ELSE ItemsOf_Prepending(SubSeq(ls, 1, Len(ls) - 1), d)

\* domain_groups[d]: the objects of domain d, in input order
RECURSIVE ItemsOf(_, _)
ItemsOf(ls, d) ==
    IF ls = <<>> THEN <<>>
    ELSE IF ls[Len(ls)].domain = d
         THEN Append(ItemsOf(SubSeq(ls, 1, Len(ls) - 1), d), Len(ls))
         ELSE ItemsOf(SubSeq(ls, 1, Len(ls) - 1), d)

GroupsOf(ls) == [d \in {ls[i].domain : i \in 1..Len(ls)} |-> ItemsOf(ls, d)]

items(d) == domain_groups[d]

\* Batch with a slice one element too long: items[i:i+21]
Batch_Overlapping(d, i) ==
    LET its == items(d)
        last == IF i + BatchSize + 1 < Len(its) THEN i + BatchSize + 1 ELSE Len(its)
    IN SubSeq(its, i + 1, last)

\* line 273: the list items[i:i+20], with i counted from 0
Batch(d, i) ==
    LET its == items(d)
        last == IF i + BatchSize < Len(its) THEN i + BatchSize ELSE Len(its)
    IN SubSeq(its, i + 1, last)

\* the objects of the batch
BatchOf(d, i) == LET b == Batch(d, i) IN {b[p] : p \in 1..Len(b)}

(***************************************************************************)
(* The TCPConnector of lines 244-250: a request holds a connection from    *)
(* the moment it is sent until its attempt ends.                           *)
(***************************************************************************)
Outstanding == {i \in Ids : task[i] \in {"head", "get"}}
OutstandingTo(h) == {i \in Outstanding : Host(links[i].url) = h}

limit == max_connections

\* Available with no limit on the total number of connections
Available_NoTotalLimit(h) ==
    limit_per_host = 0 \/ Cardinality(OutstandingTo(h)) < limit_per_host

Available(h) ==
    /\ limit = 0 \/ Cardinality(Outstanding) < limit
    /\ limit_per_host = 0 \/ Cardinality(OutstandingTo(h)) < limit_per_host

(***************************************************************************)
(* The state of a run; check_links_ultra_fast is "running" once it has      *)
(* reached its gather (line 298).                                          *)
(***************************************************************************)
InitAt(inputs, connections, engine_at, main_at) ==
    /\ links \in inputs
    /\ max_connections \in connections
    /\ domain_keys = KeysOf(links)
    /\ domain_groups = GroupsOf(links)
    /\ link = [i \in Ids |-> [status_code |-> None, is_valid |-> FALSE, error |-> None]]
    /\ dpc = [d \in Groups |-> "start"]
    /\ batch = [d \in Groups |-> 0]
    /\ results = [d \in Groups |-> <<>>]
    /\ task = [i \in Ids |-> "none"]
    /\ res = [i \in Ids |-> None]
    /\ head_calls = [i \in Ids |-> 0]
    /\ get_calls = [i \in Ids |-> 0]
    /\ attempts = [i \in Ids |-> <<>>]
    /\ pauses = [d \in Groups |-> 0]
    /\ pc = engine_at
    /\ output = <<>>
    /\ writes = [i \in Ids |-> 0]
    /\ mpc = main_at

\* main awaits check_links_ultra_fast (line 457), which has reached its gather
InitWith(inputs, connections) == InitAt(inputs, connections, "running", "checking")

\* any candidates, under the smallest and the largest connection limit
Init == InitWith(SeqsUpTo(Candidates, MaxLinks), {1, MaxConnections})

\* well-formed candidates, under the two largest connection limits
InitFail ==
    InitWith(SeqsUpTo(ConsistentCandidates, MaxLinks), (MaxConnections - 1)..MaxConnections)

\* main before get_links_with_selenium has returned: well-formed candidates,
\* under the smallest and the largest connection limit
InitMain ==
    InitAt(SeqsUpTo(ConsistentCandidates, MaxMainLinks), {1, MaxConnections},
           "idle", "start")

\* links to one host, followed or not by a link to another host, under the
\* smallest and the largest connection limit
LiveInputs ==
    LET paths == <<"x/a", "x/b", "x/c", "x/d", "x/e">>
        OneHost(n) == [i \in 1..n |-> [url |-> paths[i], domain |-> "x"]]
    IN {OneHost(n) : n \in 0..MaxLinks}
        \cup {Append(OneHost(n), [url |-> "y/a", domain |-> "y"]) : n \in 0..(MaxLinks - 1)}

InitLive == InitWith(LiveInputs, {1, MaxConnections})

\* candidates with and without a domain
InitGroups == InitWith(SeqsUpTo(DefaultCandidates, MaxLinks), 1..MaxConnections)

\* links of one url
InitProbe == InitWith(SeqsUpTo(ProbeCandidates, MaxProbeLinks), 1..MaxConnections)

(***************************************************************************)
(* process_domain (lines 269-292)                                          *)
(***************************************************************************)
\* lines 274-275: the batch's tasks are created and handed to gather; each
\* runs check_url_status up to its session.head call
Launch(d, i) ==
    /\ task' = [k \in Ids |-> IF k \in BatchOf(d, i) THEN "wait_head" ELSE task[k]]
    /\ head_calls' = [k \in Ids |->
                        IF k \in BatchOf(d, i) THEN head_calls[k] + 1 ELSE head_calls[k]]

\* the coroutine starts: the first pass of the loop of line 272
StartDomain(d) ==
    /\ pc = "running"
    /\ dpc[d] = "start"
    /\ Launch(d, 0)
    /\ dpc' = [dpc EXCEPT ![d] = "gather"]
    /\ UNCHANGED <<setup, link, batch, results, res, get_calls, attempts, pauses,
                   pc, output, writes, mpc>>

\* lines 277-286: what is copied onto the link from one entry of batch_results
Recorded(r) ==
    LET result == IF r.raised THEN [error |-> Some(Str(r.exc))] ELSE r.dict
    IN [status_code |-> IF "status_code" \in DOMAIN result
                        THEN result.status_code ELSE None,
        is_valid |-> IF "is_valid" \in DOMAIN result THEN result.is_valid ELSE FALSE,
        error |-> IF "error" \in DOMAIN result THEN result.error ELSE None]

\* what the finished task of object i handed to gather
TheResult(i) == CHOOSE r \in res[i] : TRUE

\* lines 274-275: tasks[p] probes the url of batch[p], and gather returns the
\* results in the order of its awaitables, whatever order they finished in
batch_results(d) ==
    [p \in 1..Len(Batch(d, batch[d])) |-> TheResult(Batch(d, batch[d])[p])]

\* Zipped pairing the results with the front of items, not with the batch
Zipped_WithItems(d) ==
    [p \in 1..Len(batch_results(d)) |->
        [link |-> items(d)[p], res |-> batch_results(d)[p]]]

\* line 277: zip(batch, batch_results)
Zipped(d) ==
    [p \in 1..Len(batch_results(d)) |->
        [link |-> Batch(d, batch[d])[p], res |-> batch_results(d)[p]]]

\* lines 277-288: the loop over the pairs of z.  Each pair assigns the
\* fields of its link, the last assignment to a link standing
\* (RecordedFields), counted in RecordedWrites, and appends the link to the
\* list `results` (RecordedResults).
PairsOf(z, k) == {p \in 1..Len(z) : z[p].link = k}

RecordedFields(z) ==
    [k \in Ids |->
        IF PairsOf(z, k) = {} THEN link[k]
        ELSE Recorded(z[CHOOSE p \in PairsOf(z, k) :
                            \A q \in PairsOf(z, k) : q <= p].res)]

RecordedWrites(z) == [k \in Ids |-> writes[k] + Cardinality(PairsOf(z, k))]

RecordedResults(d, z) == results[d] \o [p \in 1..Len(z) |-> z[p].link]

\* BatchComplete returning as soon as one task of the batch is done, and
\* recording the tasks that are
BatchComplete_FirstCompleted(d) ==
    /\ dpc[d] = "gather"
    /\ \E k \in BatchOf(d, batch[d]) : task[k] = "done"
    /\ link' = [k \in Ids |->
                  IF k \in BatchOf(d, batch[d]) /\ task[k] = "done"
                  THEN Recorded(CHOOSE r \in res[k] : TRUE) ELSE link[k]]
    /\ results' = [results EXCEPT ![d] = @ \o Batch(d, batch[d])]
    /\ writes' = [k \in Ids |->
                    IF k \in BatchOf(d, batch[d]) /\ task[k] = "done"
                    THEN writes[k] + 1 ELSE writes[k]]
    /\ dpc' = [dpc EXCEPT ![d] = "sleep"]
    /\ UNCHANGED <<setup, batch, task, res, head_calls, get_calls, attempts, pauses,
                   pc, output, mpc>>

\* BatchComplete leaving the loop of process_domain, with nothing recorded,
\* when a result of the batch carries an error
BatchComplete_AbortOnError(d) ==
    /\ dpc[d] = "gather"
    /\ \A k \in BatchOf(d, batch[d]) : task[k] = "done"
    /\ IF \E k \in BatchOf(d, batch[d]) :
             Recorded(CHOOSE r \in res[k] : TRUE).error # None
       THEN /\ dpc' = [dpc EXCEPT ![d] = "done"]
            /\ UNCHANGED <<link, results, writes>>
       ELSE /\ link' = RecordedFields(Zipped(d))
            /\ results' = [results EXCEPT ![d] = RecordedResults(d, Zipped(d))]
            /\ writes' = RecordedWrites(Zipped(d))
            /\ dpc' = [dpc EXCEPT ![d] = "sleep"]
    /\ UNCHANGED <<setup, batch, task, res, head_calls, get_calls, attempts, pauses,
                   pc, output, mpc>>

\* BatchComplete awaiting the probes of the whole group, of which only those
\* of the batches so far have been created
BatchComplete_AwaitsGroup(d) ==
    /\ dpc[d] = "gather"
    /\ \A p \in 1..Len(items(d)) : task[items(d)[p]] = "done"
    /\ link' = RecordedFields(Zipped(d))
    /\ results' = [results EXCEPT ![d] = RecordedResults(d, Zipped(d))]
    /\ writes' = RecordedWrites(Zipped(d))
    /\ dpc' = [dpc EXCEPT ![d] = "sleep"]
    /\ UNCHANGED <<setup, batch, task, res, head_calls, get_calls, attempts, pauses,
                   pc, output, mpc>>

\* lines 275-291: gather returns once every task of the batch is done; the
\* loop of line 277 runs without suspension, then the pause begins
BatchComplete(d) ==
    /\ dpc[d] = "gather"
    /\ \A k \in BatchOf(d, batch[d]) : task[k] = "done"
    /\ link' = RecordedFields(Zipped(d))
    /\ results' = [results EXCEPT ![d] = RecordedResults(d, Zipped(d))]
    /\ writes' = RecordedWrites(Zipped(d))
    /\ dpc' = [dpc EXCEPT ![d] = "sleep"]
    /\ UNCHANGED <<setup, batch, task, res, head_calls, get_calls, attempts, pauses,
                   pc, output, mpc>>

\* line 291 ends; line 272 steps i, and either the next batch is launched or
\* the loop ends and results is returned (line 292)
Wake(d) ==
    /\ dpc[d] = "sleep"
    /\ pauses' = [pauses EXCEPT ![d] = @ + 1]
    /\ batch' = [batch EXCEPT ![d] = @ + BatchSize]
    /\ IF batch[d] + BatchSize < Len(items(d))
       THEN /\ Launch(d, batch[d] + BatchSize)
            /\ dpc' = [dpc EXCEPT ![d] = "gather"]
       ELSE /\ dpc' = [dpc EXCEPT ![d] = "done"]
            /\ UNCHANGED <<task, head_calls>>
    /\ UNCHANGED <<setup, link, results, res, get_calls, attempts, pc, output, writes, mpc>>

(***************************************************************************)
(* check_url_status as a task (lines 156-226)                              *)
(***************************************************************************)
\* the request of the task ended with ev and the task returns r
Finish(i, ev, r) ==
    /\ task' = [task EXCEPT ![i] = "done"]
    /\ res' = [res EXCEPT ![i] = Some(r)]
    /\ attempts' = [attempts EXCEPT ![i] = Append(@, ev)]

\* the connector grants the HEAD request a connection (line 170)
HeadSend(i) ==
    /\ task[i] = "wait_head"
    /\ Available(Host(links[i].url))
    /\ task' = [task EXCEPT ![i] = "head"]
    /\ UNCHANGED <<setup, link, dpc, batch, results, res, head_calls, get_calls,
                   attempts, pauses, pc, output, writes, mpc>>

\* the HEAD attempt ends with event ev (lines 170-193, 214-226)
HeadResolve(i, ev) ==
    /\ task[i] = "head"
    /\ IF ev.kind = "response"
       THEN /\ Finish(i, ev, [raised |-> FALSE, dict |-> OnResponse(links[i].url, ev)])
            /\ UNCHANGED get_calls
       ELSE IF FallsBackToGet(ev)
       THEN /\ task' = [task EXCEPT ![i] = "wait_get"]
            /\ get_calls' = [get_calls EXCEPT ![i] = @ + 1]
            /\ attempts' = [attempts EXCEPT ![i] = Append(@, ev)]
            /\ UNCHANGED res
       ELSE /\ Finish(i, ev, OnException(links[i].url, ev))
            /\ UNCHANGED get_calls
    /\ UNCHANGED <<setup, link, dpc, batch, results, head_calls, pauses, pc, output, writes, mpc>>

\* the connector grants the GET request a connection (line 196)
GetSend(i) ==
    /\ task[i] = "wait_get"
    /\ Available(Host(links[i].url))
    /\ task' = [task EXCEPT ![i] = "get"]
    /\ UNCHANGED <<setup, link, dpc, batch, results, res, head_calls, get_calls,
                   attempts, pauses, pc, output, writes, mpc>>

\* the GET attempt ends with event ev (lines 196-226)
GetResolve(i, ev) ==
    /\ task[i] = "get"
    /\ IF ev.kind = "response"
       THEN Finish(i, ev, [raised |-> FALSE, dict |-> OnResponse(links[i].url, ev)])
       ELSE Finish(i, ev, OnException(links[i].url, ev))
    /\ UNCHANGED <<setup, link, dpc, batch, results, head_calls, get_calls, pauses,
                   pc, output, writes, mpc>>

\* the request's total timeout (lines 173, 199) expires while the request
\* waits for the connector to grant it a connection
AcquireTimeout(i) ==
    /\ task[i] \in {"wait_head", "wait_get"}
    /\ ~Available(Host(links[i].url))
    /\ Finish(i, TimeoutError, OnException(links[i].url, TimeoutError))
    /\ UNCHANGED <<setup, link, dpc, batch, results, head_calls, get_calls, pauses,
                   pc, output, writes, mpc>>

(***************************************************************************)
(* check_links_ultra_fast: the aggregation (lines 298-316)                 *)
(***************************************************************************)
\* Place without the test `all_results[i] is None`
Place_IgnoringTaken(all, k) ==
    LET same == {i \in 1..Len(all) : links[i].url = links[k].url}
    IN IF same = {} THEN all
       ELSE LET i == CHOOSE i \in same : \A j \in same : i <= j
            IN [all EXCEPT ![i] = Some(k)]

\* Place taking the last free slot of the url instead of the first
Place_LastFree(all, k) ==
    LET free == {i \in 1..Len(all) : links[i].url = links[k].url /\ all[i] = None}
    IN IF free = {} THEN all
       ELSE LET i == CHOOSE i \in free : \A j \in free : i >= j
            IN [all EXCEPT ![i] = Some(k)]

\* lines 311-314: the first free slot whose input link has the url of k
Place(all, k) ==
    LET free == {i \in 1..Len(all) : links[i].url = links[k].url /\ all[i] = None}
    IN IF free = {} THEN all
       ELSE LET i == CHOOSE i \in free : \A j \in free : i <= j
            IN [all EXCEPT ![i] = Some(k)]

\* lines 309-314 for one domain_result
RECURSIVE PlaceAll(_, _)
PlaceAll(all, domain_result) ==
    IF domain_result = <<>> THEN all
    ELSE PlaceAll(Place(all, Head(domain_result)), Tail(domain_result))

\* lines 308-314: the domain results, in the order of domain_tasks (line 295)
RECURSIVE Collect(_, _)
Collect(all, n) ==
    IF n = 0 THEN all
    ELSE PlaceAll(Collect(all, n - 1), results[domain_keys[n]])

\* line 316
RECURSIVE Compact(_)
Compact(all) ==
    IF all = <<>> THEN <<>>
    ELSE IF Head(all) = None THEN Compact(Tail(all))
         ELSE <<CHOOSE k \in Head(all) : TRUE>> \o Compact(Tail(all))

\* lines 306-316
all_results == Collect([i \in 1..Len(links) |-> None], Len(domain_keys))

\* the gather of line 298 returns once every process_domain has returned
Aggregate ==
    /\ pc = "running"
    /\ \A d \in Groups : dpc[d] = "done"
    /\ output' = Compact(all_results)
    /\ pc' = "returned"
    /\ UNCHANGED <<setup, link, dpc, batch, results, task, res, head_calls,
                   get_calls, attempts, pauses, writes, mpc>>

(***************************************************************************)
(* main (lines 428-475) and the interruption of a run.  The program runs   *)
(* main under asyncio.run (line 494).  main's SIGINT handler (lines 431-   *)
(* 435) raises SystemExit, which leaves the event loop; asyncio.run then   *)
(* cancels every unfinished task of the loop and runs the loop until each  *)
(* has ended: each is resumed with CancelledError where it is suspended.   *)
(***************************************************************************)
\* MainCollect without the test of line 449
MainCollect_NoEmptyCheck ==
    /\ mpc = "start"
    /\ mpc' = "checking"
    /\ pc' = "running"
    /\ UNCHANGED <<setup, link, dpc, batch, results, task, res, head_calls,
                   get_calls, attempts, pauses, output, writes>>

\* lines 448-457: get_links_with_selenium has returned links; main returns
\* when there are none, and otherwise calls check_links_ultra_fast, which
\* runs to its gather
MainCollect ==
    /\ mpc = "start"
    /\ IF links = <<>>
       THEN mpc' = "empty" /\ UNCHANGED pc
       ELSE mpc' = "checking" /\ pc' = "running"
    /\ UNCHANGED <<setup, link, dpc, batch, results, task, res, head_calls,
                   get_calls, attempts, pauses, output, writes>>

\* lines 462-475: check_links_ultra_fast has returned, report_results is
\* called and main returns
MainReport ==
    /\ mpc = "checking"
    /\ pc = "returned"
    /\ mpc' = "reported"
    /\ UNCHANGED <<setup, link, dpc, batch, results, task, res, head_calls,
                   get_calls, attempts, pauses, pc, output, writes>>

\* the tasks of the event loop that have not ended
Unfinished(i) == task[i] \in {"wait_head", "head", "wait_get", "get"}

\* SIGINT while main awaits check_links_ultra_fast: every unfinished task is
\* cancelled: main's, each process_domain's and each check_url_status's
Interrupt ==
    /\ mpc = "checking"
    /\ pc = "running"
    /\ pc' = "cancelling"
    /\ dpc' = [d \in Groups |-> IF dpc[d] = "done" THEN "done" ELSE "cancelling"]
    /\ task' = [i \in Ids |-> IF Unfinished(i) THEN "cancelling" ELSE task[i]]
    /\ UNCHANGED <<setup, link, batch, results, res, head_calls, get_calls,
                   attempts, pauses, output, writes, mpc>>

\* lines 167-226: CancelledError is raised at the request the task awaits;
\* no except clause of check_url_status catches it, and the task ends
ProbeCancelled(i) ==
    /\ task[i] = "cancelling"
    /\ task' = [task EXCEPT ![i] = "cancelled"]
    /\ UNCHANGED <<setup, link, dpc, batch, results, res, head_calls, get_calls,
                   attempts, pauses, pc, output, writes, mpc>>

\* lines 269-292: CancelledError is raised at the await of line 291, or at
\* the gather of line 275 once the tasks of the batch have ended
DomainCancelled(d) ==
    /\ dpc[d] = "cancelling"
    /\ \A k \in BatchOf(d, batch[d]) : task[k] # "cancelling"
    /\ dpc' = [dpc EXCEPT ![d] = "cancelled"]
    /\ UNCHANGED <<setup, link, batch, results, task, res, head_calls, get_calls,
                   attempts, pauses, pc, output, writes, mpc>>

\* MainCancelled with the handler of lines 299-302 not raising again: the
\* run goes on to the aggregation and to the report
MainCancelled_Swallowed ==
    /\ pc = "cancelling"
    /\ pc' = "returned"
    /\ mpc' = "reported"
    /\ output' = Compact(all_results)
    /\ UNCHANGED <<setup, link, dpc, batch, results, task, res, head_calls,
                   get_calls, attempts, pauses, writes>>

\* lines 297-302 and 456-460: CancelledError is raised at the gather of line
\* 298, raised again by the handler, caught by main, and main returns
MainCancelled ==
    /\ pc = "cancelling"
    /\ pc' = "cancelled"
    /\ mpc' = "interrupted"
    /\ UNCHANGED <<setup, link, dpc, batch, results, task, res, head_calls,
                   get_calls, attempts, pauses, output, writes>>

Next ==
    \/ \E d \in Groups : StartDomain(d)
    \/ \E i \in Ids : HeadSend(i)
    \/ \E i \in Ids : \E ev \in SchedHeadEvents : HeadResolve(i, ev)
    \/ \E i \in Ids : GetSend(i)
    \/ \E i \in Ids : \E ev \in SchedGetEvents : GetResolve(i, ev)
    \/ \E i \in Ids : AcquireTimeout(i)
    \/ \E d \in Groups : BatchComplete(d)
    \/ \E d \in Groups : Wake(d)
    \/ Aggregate

NextFail ==
    \/ \E d \in Groups : StartDomain(d)
    \/ \E i \in Ids : HeadSend(i)
    \/ \E i \in Ids : \E ev \in FailHeadEvents : HeadResolve(i, ev)
    \/ \E i \in Ids : GetSend(i)
    \/ \E i \in Ids : \E ev \in FailGetEvents : GetResolve(i, ev)
    \/ \E i \in Ids : AcquireTimeout(i)
    \/ \E d \in Groups : BatchComplete(d)
    \/ \E d \in Groups : Wake(d)
    \/ Aggregate

NextProbe ==
    \/ \E d \in Groups : StartDomain(d)
    \/ \E i \in Ids : HeadSend(i)
    \/ \E i \in Ids : \E ev \in ProbeEvents : HeadResolve(i, ev)
    \/ \E i \in Ids : GetSend(i)
    \/ \E i \in Ids : \E ev \in ProbeEvents : GetResolve(i, ev)
    \/ \E i \in Ids : AcquireTimeout(i)
    \/ \E d \in Groups : BatchComplete(d)
    \/ \E d \in Groups : Wake(d)
    \/ Aggregate

\* the engine, a HEAD request being answered 200 or rejected with a 405 error
NextGroups ==
    \/ \E d \in Groups : StartDomain(d)
    \/ \E i \in Ids : HeadSend(i)
    \/ \E i \in Ids : \E ev \in MainHeadEvents : HeadResolve(i, ev)
    \/ \E i \in Ids : GetSend(i)
    \/ \E i \in Ids : \E ev \in SchedGetEvents : GetResolve(i, ev)
    \/ \E i \in Ids : AcquireTimeout(i)
    \/ \E d \in Groups : BatchComplete(d)
    \/ \E d \in Groups : Wake(d)
    \/ Aggregate

\* the whole program: main, the engine and the interruption
NextMain ==
    \/ MainCollect
    \/ \E d \in Groups : StartDomain(d)
    \/ \E i \in Ids : HeadSend(i)
    \/ \E i \in Ids : \E ev \in MainHeadEvents : HeadResolve(i, ev)
    \/ \E i \in Ids : GetSend(i)
    \/ \E i \in Ids : \E ev \in SchedGetEvents : GetResolve(i, ev)
    \/ \E i \in Ids : AcquireTimeout(i)
    \/ \E d \in Groups : BatchComplete(d)
    \/ \E d \in Groups : Wake(d)
    \/ Aggregate
    \/ MainReport
    \/ Interrupt
    \/ \E i \in Ids : ProbeCancelled(i)
    \/ \E d \in Groups : DomainCancelled(d)
    \/ MainCancelled

Spec == Init /\ [][Next]_vars

SpecFail == InitFail /\ [][NextFail]_vars

SpecProbe == InitProbe /\ [][NextProbe]_vars

SpecGroups == InitGroups /\ [][NextGroups]_vars

\* The event loop runs a task that can take a step, and a request that is
\* outstanding ends: with a response, with an error or with its timeout.
SpecLive == InitLive /\ [][NextGroups]_vars /\ WF_vars(NextGroups)

SpecMain == InitMain /\ [][NextMain]_vars /\ WF_vars(NextMain)

(***************************************************************************)
(* Notions the properties are stated with                                  *)
(***************************************************************************)
\* the objects process_domain has copied an outcome onto
RecordedIds == {k \in Ids : \E d \in Groups : \E p \in 1..Len(results[d]) : results[d][p] = k}

\* the event the last request of object i ended with
LastAttempt(i) == attempts[i][Len(attempts[i])]

InValidRange(s) == 200 <= s /\ s < 400

\* is_valid agrees with the status code of the outcome o
Classified(o) ==
    o.is_valid <=> (o.status_code # None /\ \A s \in o.status_code : InValidRange(s))

DomainFollowsUrl == \A i \in Ids : links[i].domain = Host(links[i].url)

\* the batch, counted from 0, of position p of a domain group
BatchIndex(p) == (p - 1) \div BatchSize

(***************************************************************************)
(* C1: once check_links_ultra_fast has returned, the returned list has as  *)
(* many entries as the input list and holds every input object exactly     *)
(* once, whatever the urls, the domains and the outcomes of the probes.    *)
(***************************************************************************)
C1_EveryCandidateOnce ==
    pc = "returned" =>
        /\ Len(output) = Len(links)
        /\ \A k \in Ids : Cardinality({p \in 1..Len(output) : output[p] = k}) = 1

\* a returned run of three links, two of them with the same url, the first
\* of which failed and the second of which succeeded
C1_Witness ==
    /\ pc = "returned"
    /\ Len(links) >= 3
    /\ \E i, j \in Ids :
          /\ i < j
          /\ links[i].url = links[j].url
          /\ link[i].error # None
          /\ link[j].is_valid

(***************************************************************************)
(* C2: when every candidate's domain is the host of its url, the returned  *)
(* list is the input list in input order: position i holds input object i, *)
(* also when several candidates have the same url.                         *)
(***************************************************************************)
C2_InputOrder ==
    (pc = "returned" /\ DomainFollowsUrl) =>
        /\ Len(output) = Len(links)
        /\ \A i \in Ids : output[i] = i

\* a returned run over two domain groups in which two links have one url
\* and a probe failed
C2_Witness ==
    /\ pc = "returned"
    /\ DomainFollowsUrl
    /\ Cardinality(Groups) = 2
    /\ \E i, j \in Ids : i < j /\ links[i].url = links[j].url
    /\ \E i \in Ids : link[i].error # None

(***************************************************************************)
(* C3: every candidate is returned in its own slot, output[i] being input  *)
(* object i, also when two candidates with the same url carry different    *)
(* domains.                                                                *)
(***************************************************************************)
C3_OwnSlot ==
    pc = "returned" =>
        /\ Len(output) = Len(links)
        /\ \A i \in Ids : output[i] = i

(***************************************************************************)
(* C4: in every outcome a probe returns and in the fields of every link,   *)
(* is_valid is true exactly when a status code is present and lies in      *)
(* 200..399.                                                               *)
(***************************************************************************)
C4_Classification ==
    /\ \A i \in Ids : task[i] = "done" =>
          /\ ~TheResult(i).raised
          /\ Classified(TheResult(i).dict)
    /\ \A i \in Ids : Classified(link[i])
    /\ \A i \in RecordedIds :
          /\ link[i].status_code = TheResult(i).dict.status_code
          /\ link[i].is_valid = TheResult(i).dict.is_valid

\* a link recorded valid with status 399, and a link recorded invalid with
\* status 400
C4_Witness ==
    /\ \E i \in RecordedIds : link[i].status_code = Some(399) /\ link[i].is_valid
    /\ \E i \in RecordedIds : link[i].status_code = Some(400) /\ ~link[i].is_valid

(***************************************************************************)
(* C5: a probe whose HEAD request was answered with status 405 makes       *)
(* exactly one GET request, and its outcome is that of the GET request:    *)
(* status 200, valid and without error when the GET was answered 200.      *)
(***************************************************************************)
C5_FallbackOn405 ==
    \A i \in Ids :
        (/\ task[i] = "done"
         /\ attempts[i] # <<>>
         /\ attempts[i][1].kind \in {"response", "ClientResponseError"}
         /\ attempts[i][1].status = 405)
        => /\ get_calls[i] = 1
           /\ Len(attempts[i]) = 2
           /\ attempts[i][2] = Response(200) =>
                 TheResult(i).dict = [url |-> links[i].url, status_code |-> Some(200),
                                      is_valid |-> TRUE, error |-> None]

(***************************************************************************)
(* C6: at no instant are more than max_connections requests outstanding,   *)
(* and at no instant are more than limit_per_host of them outstanding to   *)
(* one host.                                                               *)
(***************************************************************************)
C6_ConcurrencyBound ==
    /\ max_connections > 0 => Cardinality(Outstanding) <= max_connections
    /\ \A u \in Urls : Cardinality(OutstandingTo(Host(u))) <= limit_per_host

\* the per-host limit binds before the total limit does: a request waits
\* for a host that has limit_per_host requests outstanding
C6_Witness ==
    \E i \in Ids :
        /\ task[i] \in {"wait_head", "wait_get"}
        /\ Cardinality(OutstandingTo(Host(links[i].url))) = limit_per_host
        /\ Cardinality(Outstanding) < max_connections

(***************************************************************************)
(* C7: within a domain group no probe of a later batch has started unless  *)
(* every probe of every earlier batch is done, its outcome is recorded on  *)
(* its link, and the pause after the earlier batches has elapsed.          *)
(***************************************************************************)
C7_BatchBarrier ==
    \A d \in Groups : \A p, q \in 1..Len(items(d)) :
        (BatchIndex(p) < BatchIndex(q) /\ task[items(d)[q]] # "none") =>
            /\ task[items(d)[p]] = "done"
            /\ \E n \in 1..Len(results[d]) : results[d][n] = items(d)[p]
            /\ link[items(d)[p]] = Recorded(TheResult(items(d)[p]))
            /\ pauses[d] >= BatchIndex(q)

\* a probe of a second batch is outstanding, after a first batch one probe
\* of which failed
C7_Witness ==
    \E d \in Groups : \E p, q \in 1..Len(items(d)) :
        /\ BatchIndex(p) = 0
        /\ BatchIndex(q) = 1
        /\ task[items(d)[q]] = "head"
        /\ link[items(d)[p]].error = Some("Timeout")

(***************************************************************************)
(* C8: a failing probe aborts nothing: a stream that has finished a batch  *)
(* has recorded on every link of the batch the outcome of that link's own  *)
(* probe, a stream that has returned has recorded every link of its group, *)
(* and the run returns only with every link recorded.                      *)
(***************************************************************************)
C8_FailuresContained ==
    /\ \A i \in RecordedIds : task[i] = "done" /\ link[i] = Recorded(TheResult(i))
    /\ \A d \in Groups :
          /\ dpc[d] = "sleep" =>
                \A k \in BatchOf(d, batch[d]) :
                    \E n \in 1..Len(results[d]) : results[d][n] = k
          /\ dpc[d] = "done" => results[d] = items(d)
    /\ pc = "returned" => RecordedIds = Ids

\* a returned run in which a probe of a first batch failed with an
\* unexpected exception, the other probe of that batch succeeded, and a
\* probe of the second batch of the same group succeeded
C8_Witness ==
    /\ pc = "returned"
    /\ \E d \in Groups : \E p, q, r \in 1..Len(items(d)) :
          /\ p # q
          /\ BatchIndex(p) = 0 /\ BatchIndex(q) = 0 /\ BatchIndex(r) = 1
          /\ link[items(d)[p]].error = Some("Unknown: boom")
          /\ link[items(d)[q]].is_valid
          /\ link[items(d)[r]].is_valid

(***************************************************************************)
(* C9: a probe whose last request timed out returns error 'Timeout'; one   *)
(* whose last request failed in the transport returns 'Network: ' followed *)
(* by the message; one whose last request failed otherwise returns         *)
(* 'Unknown: ' followed by the message; each without a status code, and    *)
(* none raises.                                                            *)
(***************************************************************************)
C9_FailureKinds ==
    \A i \in Ids : task[i] = "done" =>
        /\ ~TheResult(i).raised
        /\ IsTimeoutError(LastAttempt(i)) =>
              /\ TheResult(i).dict.error = Some("Timeout")
              /\ TheResult(i).dict.status_code = None
        /\ LastAttempt(i).kind = "ClientError" =>
              /\ TheResult(i).dict.error = Some("Network: " \o LastAttempt(i).msg)
              /\ TheResult(i).dict.status_code = None
        /\ LastAttempt(i).kind = "Exception" =>
              /\ TheResult(i).dict.error = Some("Unknown: " \o LastAttempt(i).msg)
              /\ TheResult(i).dict.status_code = None

\* a probe whose GET request failed with an unexpected exception
C9_Witness ==
    \E i \in Ids :
        /\ task[i] = "done"
        /\ Len(attempts[i]) = 2
        /\ LastAttempt(i).kind = "Exception"
        /\ TheResult(i).dict.error = Some("Unknown: refused")

(***************************************************************************)
(* C10: a probe whose last request raised a status error returns that      *)
(* status as its status code, is_valid by the range 200..399, and the      *)
(* text of the error, not a Network or Unknown error.                      *)
(***************************************************************************)
C10_StatusErrorKept ==
    \A i \in Ids :
        (task[i] = "done" /\ IsClientResponseError(LastAttempt(i))) =>
            /\ ~TheResult(i).raised
            /\ TheResult(i).dict.status_code = Some(LastAttempt(i).status)
            /\ TheResult(i).dict.is_valid = InValidRange(LastAttempt(i).status)
            /\ TheResult(i).dict.error = Some(Str(LastAttempt(i)))
            /\ TheResult(i).dict.error # Some("Network: " \o Str(LastAttempt(i)))
            /\ TheResult(i).dict.error # Some("Unknown: " \o Str(LastAttempt(i)))

\* a probe whose HEAD request raised status error 404, and a probe whose
\* GET request raised a status error whose status is in the valid range
C10_Witness ==
    /\ \E i \in Ids :
          /\ task[i] = "done"
          /\ attempts[i] = <<ClientResponseError(404, "refused")>>
          /\ TheResult(i).dict.status_code = Some(404)
    /\ \E i \in Ids :
          /\ task[i] = "done"
          /\ Len(attempts[i]) = 2
          /\ LastAttempt(i) = ClientResponseError(399, "refused")
          /\ TheResult(i).dict.is_valid

(***************************************************************************)
(* Notions of a run of main                                                *)
(***************************************************************************)
\* the run has been interrupted
Interrupted == pc \in {"cancelling", "cancelled"}

\* no task is left: main has returned, and every stream and every probe
\* has ended, by itself or cancelled
NothingLeft ==
    /\ mpc \in {"empty", "reported", "interrupted"}
    /\ \A d \in Groups : dpc[d] \in {"done", "cancelled"}
    /\ \A i \in Ids : task[i] \in {"none", "done", "cancelled"}

(***************************************************************************)
(* C11: a run interrupted while check_links_ultra_fast awaits its streams  *)
(* never reports and issues no further request and records no further      *)
(* outcome, and it ends: main returns without a report, every stream that  *)
(* had not returned is cancelled and so is every unfinished probe.         *)
(***************************************************************************)
C11_CancelledRunEnds ==
    /\ [](Interrupted => mpc # "reported")
    /\ [][Interrupted => /\ mpc' # "reported"
                         /\ head_calls' = head_calls
                         /\ get_calls' = get_calls
                         /\ link' = link]_vars
    /\ Interrupted ~> (mpc = "interrupted" /\ NothingLeft)

\* an interrupted run that has ended: two streams were cancelled, each with
\* a probe that had been issued and had not finished
C11_Witness ==
    /\ mpc = "interrupted"
    /\ NothingLeft
    /\ Cardinality(Groups) = 2
    /\ \A d \in Groups :
          /\ dpc[d] = "cancelled"
          /\ \E k \in BatchOf(d, batch[d]) :
                task[k] = "cancelled" /\ head_calls[k] = 1

(***************************************************************************)
(* C12: when get_links_with_selenium returns no link, main returns at line *)
(* 451 with its message: check_links_ultra_fast is never started, so no    *)
(* stream runs and no request is made, and report_results is never called. *)
(***************************************************************************)
C12_NoLinksNoRun ==
    /\ [](links = <<>> => /\ pc = "idle"
                          /\ mpc \in {"start", "empty"}
                          /\ output = <<>>)
    /\ (links = <<>>) ~> (mpc = "empty" /\ NothingLeft)

\* main has returned early on an empty list
C12_Witness ==
    /\ links = <<>>
    /\ mpc = "empty"
    /\ pc = "idle"

(***************************************************************************)
(* Notions of the independence of the streams                              *)
(***************************************************************************)
\* the probes of the batch stream d awaits that wait for a connection
Waiting(d) == {k \in BatchOf(d, batch[d]) : task[k] \in {"wait_head", "wait_get"}}

\* stream d awaits its batch, no request of the batch is outstanding, and
\* the connector grants none of its waiting requests a connection
Stalled(d) ==
    /\ dpc[d] = "gather"
    /\ Waiting(d) # {}
    /\ \A k \in BatchOf(d, batch[d]) : task[k] \notin {"head", "get"}
    /\ \A k \in Waiting(d) : ~Available(Host(links[k].url))

(***************************************************************************)
(* C13: the streams of different hosts progress independently: whatever    *)
(* max_connections >= 1 is, a stream is never kept from sending the        *)
(* requests of its batch by the outstanding requests of another host, also *)
(* while those hold connections of the shared connector.                   *)
(***************************************************************************)
C13_StreamsIndependent ==
    DomainFollowsUrl => \A d \in Groups : ~Stalled(d)

(***************************************************************************)
(* C14: every link is probed by one check_url_status task and its outcome  *)
(* fields are assigned once: never more than once at any time, exactly     *)
(* once when its batch is complete, and from then on no step assigns or    *)
(* changes them: no later batch, no other stream, and not the aggregation. *)
(***************************************************************************)
C14_WrittenOnce ==
    /\ [](/\ \A i \in Ids : head_calls[i] <= 1 /\ writes[i] <= 1
          /\ \A i \in RecordedIds : head_calls[i] = 1 /\ writes[i] = 1
          /\ pc = "returned" => \A i \in Ids : head_calls[i] = 1 /\ writes[i] = 1)
    /\ [][\A i \in RecordedIds : link'[i] = link[i] /\ writes'[i] = writes[i]]_vars

\* a returned run of a stream of two batches, with every link written once
C14_Witness ==
    /\ pc = "returned"
    /\ \E d \in Groups : Len(items(d)) > BatchSize
    /\ \A i \in Ids : writes[i] = 1 /\ head_calls[i] = 1

(***************************************************************************)
(* C15: domain_groups is a partition of the input list: every position of  *)
(* the list is in the group of its domain, once, and in no other group;    *)
(* every group lists its positions in increasing order; and the candidates *)
(* with the empty domain are all in the one group of key "".               *)
(***************************************************************************)
C15_Partition ==
    /\ \A i \in Ids :
          /\ links[i].domain \in Groups
          /\ \A d \in Groups :
                Cardinality({p \in 1..Len(items(d)) : items(d)[p] = i})
                    = IF d = links[i].domain THEN 1 ELSE 0
    /\ \A d \in Groups :
          /\ items(d) # <<>>
          /\ \A p \in 1..Len(items(d)) : items(d)[p] \in Ids
          /\ \A p, q \in 1..Len(items(d)) : p < q => items(d)[p] < items(d)[q]
    /\ Groups = {domain_keys[n] : n \in 1..Len(domain_keys)}
    /\ \A m, n \in 1..Len(domain_keys) : m # n => domain_keys[m] # domain_keys[n]
    /\ (\E i \in Ids : links[i].domain = "") =>
          /\ "" \in Groups
          /\ \A i \in Ids : links[i].domain = "" =>
                \E p \in 1..Len(items("")) : items("")[p] = i

\* a run over an input whose first and last candidates have the empty
\* domain, with a candidate of another domain between them
C15_Witness ==
    /\ Len(links) = 3
    /\ links[1].domain = "" /\ links[2].domain = "x" /\ links[3].domain = ""
    /\ items("") = <<1, 3>>
    /\ domain_keys = <<"", "x">>
    /\ pc = "returned"

(***************************************************************************)
(* Notions of the end of a run                                             *)
(***************************************************************************)
\* check_links_ultra_fast has returned its list, every probe has ended and
\* every stream has recorded all its batches and returned
Returned ==
    /\ pc = "returned"
    /\ \A i \in Ids : task[i] = "done"
    /\ \A d \in Groups : dpc[d] = "done" /\ results[d] = items(d)
    /\ Len(output) = Len(links)

(***************************************************************************)
(* C16: a probe calls session.head exactly once and session.get at most    *)
(* once, and makes no other request; it calls session.get only when its    *)
(* HEAD request raised an error whose status is 405; a HEAD request that   *)
(* failed in any other way (timeout, transport error, unexpected           *)
(* exception, error of another status) ends the probe with that one        *)
(* request made.                                                           *)
(***************************************************************************)
Rejected405(e) == e.kind = "ClientResponseError" /\ e.status = 405

C16_OneHeadOneGet ==
    \A i \in Ids :
        /\ head_calls[i] = (IF task[i] = "none" THEN 0 ELSE 1)
        /\ get_calls[i] <= 1
        /\ Len(attempts[i]) <= head_calls[i] + get_calls[i]
        /\ task[i] \in {"wait_get", "get"} => get_calls[i] = 1
        /\ get_calls[i] = 1 => /\ attempts[i] # <<>>
                               /\ Rejected405(attempts[i][1])
        /\ (/\ attempts[i] # <<>>
            /\ attempts[i][1].kind # "response"
            /\ ~Rejected405(attempts[i][1]))
           => /\ task[i] = "done"
              /\ get_calls[i] = 0
              /\ attempts[i] = <<attempts[i][1]>>

\* a finished probe that made the GET request after a 405 error of its HEAD
\* request, and a finished probe that ended on a 404 error of its HEAD
\* request
C16_Witness ==
    \E i, j \in Ids :
        /\ task[i] = "done" /\ task[j] = "done"
        /\ attempts[i][1] = ClientResponseError(405, "refused")
        /\ head_calls[i] = 1 /\ get_calls[i] = 1 /\ Len(attempts[i]) = 2
        /\ attempts[j] = <<ClientResponseError(404, "refused")>>
        /\ head_calls[j] = 1 /\ get_calls[j] = 0

(***************************************************************************)
(* C17: an outcome a probe returned, and the fields of a recorded link,    *)
(* never lack both the status code and the error; when the error is        *)
(* 'Timeout', or starts with 'Network: ' or 'Unknown: ', there is no       *)
(* status code and is_valid is false; and when the probe's last request    *)
(* was answered with a response, the outcome has that response's status    *)
(* code and no error.                                                      *)
(***************************************************************************)
\* the error texts of the kinds Timeout, Network and Unknown
FailureTexts ==
    LET failures == {e \in ProbeEvents : e.kind # "response"}
    IN {"Timeout"} \cup {"Network: " \o Str(e) : e \in failures}
                   \cup {"Unknown: " \o Str(e) : e \in failures}

Shaped(o) ==
    /\ ~(o.status_code = None /\ o.error = None)
    /\ (\E t \in o.error : t \in FailureTexts) =>
          (o.status_code = None /\ ~o.is_valid)

FromResponse(i, o) ==
    LastAttempt(i).kind = "response" =>
        (o.status_code = Some(LastAttempt(i).status) /\ o.error = None)

C17_OutcomeShape ==
    /\ \A i \in Ids : task[i] = "done" =>
          /\ ~TheResult(i).raised
          /\ Shaped(TheResult(i).dict)
          /\ FromResponse(i, TheResult(i).dict)
    /\ \A i \in RecordedIds : Shaped(link[i]) /\ FromResponse(i, link[i])

\* a link recorded with a network error and no status code, and a link
\* recorded from the response to its GET request
C17_Witness ==
    \E i, j \in RecordedIds :
        /\ link[i] = [status_code |-> None, is_valid |-> FALSE,
                      error |-> Some("Network: refused")]
        /\ Len(attempts[j]) = 2
        /\ LastAttempt(j) = Response(400)
        /\ link[j] = [status_code |-> Some(400), is_valid |-> FALSE, error |-> None]

(***************************************************************************)
(* C18: the probes of a batch finish in any order, and the step that       *)
(* records the batch writes on each link of the batch the outcome of the   *)
(* probe started for that link, which carries the link's url, and writes   *)
(* on no other link; so two links of one batch with different outcomes     *)
(* never hold each other's outcome.                                        *)
(***************************************************************************)
SameBatch(i, j) ==
    \E d \in Groups : \E p, q \in 1..Len(items(d)) :
        /\ items(d)[p] = i /\ items(d)[q] = j
        /\ BatchIndex(p) = BatchIndex(q)

OwnOutcome(i) ==
    /\ ~TheResult(i).raised
    /\ TheResult(i).dict.url = links[i].url
    /\ link[i] = Recorded(TheResult(i))

C18_NoSwapInBatch ==
    /\ [](\A i, j \in RecordedIds :
            (i # j /\ SameBatch(i, j)) =>
                /\ OwnOutcome(i) /\ OwnOutcome(j)
                /\ Recorded(TheResult(i)) # Recorded(TheResult(j)) =>
                      link[i] # Recorded(TheResult(j)))
    /\ [][\A d \in Groups :
            (dpc[d] = "gather" /\ dpc'[d] = "sleep") =>
                \A k \in Ids :
                    link'[k] = IF k \in BatchOf(d, batch[d])
                               THEN Recorded(TheResult(k)) ELSE link[k]]_vars

\* a recorded batch under one connection whose second probe ended first (it
\* timed out waiting for the connection, which the first probe held: no
\* HEAD request that was sent times out here) and whose first probe was
\* answered 200
C18_Witness ==
    \E d \in Groups : \E p \in 1..Len(items(d)) :
        /\ max_connections = 1
        /\ p + 1 <= Len(items(d))
        /\ BatchIndex(p) = BatchIndex(p + 1)
        /\ {items(d)[p], items(d)[p + 1]} \subseteq RecordedIds
        /\ attempts[items(d)[p]] = <<Response(200)>>
        /\ attempts[items(d)[p + 1]] = <<TimeoutError>>
        /\ link[items(d)[p]].is_valid
        /\ link[items(d)[p + 1]].error = Some("Timeout")

(***************************************************************************)
(* C19: a run of check_links_ultra_fast that is not interrupted returns,   *)
(* provided every outstanding request ends and the event loop runs a task  *)
(* that can take a step: every probe ends, every stream records all its    *)
(* batches and returns, and the result list is returned; no stream is left *)
(* waiting on a batch, on a connection or on another stream.               *)
(***************************************************************************)
C19_RunTerminates == <>Returned

\* a returned run under one connection, in which a stream ran two batches
\* and a request timed out waiting for the connection
C19_Witness ==
    /\ Returned
    /\ max_connections = 1
    /\ \E d \in Groups : Len(items(d)) > BatchSize /\ pauses[d] = 2
    /\ \E i \in Ids : head_calls[i] = 1 /\ attempts[i] = <<TimeoutError>>
                       /\ link[i].error = Some("Timeout")

====
